---- MODULE Spec2Model ----
(***************************************************************************)
(* Model of generate_redirects.py: the redirect generator that maps the    *)
(* flat .html URLs of a Jupyter Book v1 site to the directory URLs of a    *)
(* MyST site.  Strings are sequences of one-character strings, so that     *)
(* str.replace, str.lower, str.split, str.strip and the two re.sub calls   *)
(* are computed character by character, as Python computes them.           *)
(***************************************************************************)
EXTENDS Integers, Sequences, FiniteSets, TLC

VARIABLES
    pc,             \* position of the running program
    base_url_arg,   \* the --base-url option as given
    base_url,       \* generate_redirects: base_url, normalised by line 187
    config_exists,  \* myst_config_path.exists()
    config,         \* the value yaml.safe_load returns for the document
    file_paths,     \* generate_redirects: file_paths
    index_slug,     \* generate_redirects: index_slug
    idx,            \* position of the for loop of line 204 in file_paths
    count,          \* generate_redirects: count
    written,        \* the create_redirect_html calls of this run, in order
    files,          \* the output tree: output file -> its content
    files_prev,     \* the output tree as the previous run left it
    run_no,         \* 1 for the first invocation, 2 for the re-run
    exc,            \* the exception that left generate_redirects, or "none"
    exit_code,      \* the exit code of main, -1 while it runs
    arg,            \* input of the pure function under check
    out,            \* its result
    out2            \* the result of applying it to its own result

vars == <<pc, base_url_arg, base_url, config_exists, config, file_paths, index_slug, idx,
          count, written, files, files_prev, run_no, exc, exit_code,
          arg, out, out2>>

pipeline_vars == <<base_url_arg, base_url, config_exists, config, file_paths, index_slug,
                   idx, count, written, files, files_prev, run_no, exc,
                   exit_code>>

function_vars == <<arg, out, out2>>

-----------------------------------------------------------------------------
(* Bounds of the checked instances.                                        *)

MaxLen == 4      \* longest enumerated input string of sanitize_for_myst_url
MaxNodes == 3    \* most entry nodes of an enumerated table of contents
MaxEntries == 3  \* most top-level entries of the toc of a generator run

-----------------------------------------------------------------------------
(* Python string primitives.                                               *)

UpperLetters == <<"A", "B", "C", "D", "E", "F", "G", "H", "I", "J", "K", "L", "M",
                  "N", "O", "P", "Q", "R", "S", "T", "U", "V", "W", "X", "Y", "Z">>

LowerLetters == <<"a", "b", "c", "d", "e", "f", "g", "h", "i", "j", "k", "l", "m",
                  "n", "o", "p", "q", "r", "s", "t", "u", "v", "w", "x", "y", "z">>

Digits == {"0", "1", "2", "3", "4", "5", "6", "7", "8", "9"}

IsUpper(c) == \E k \in DOMAIN UpperLetters : UpperLetters[k] = c

\* str.lower() on one character
LowerChar(c) ==
    IF IsUpper(c)
    THEN LowerLetters[CHOOSE k \in DOMAIN UpperLetters : UpperLetters[k] = c]
    ELSE c

\* str.lower()
StrLower(s) == [k \in DOMAIN s |-> LowerChar(s[k])]

StartsWith(s, p) == Len(s) >= Len(p) /\ SubSeq(s, 1, Len(p)) = p

EndsWith(s, p) == Len(s) >= Len(p) /\ SubSeq(s, Len(s) - Len(p) + 1, Len(s)) = p

\* str.replace(old, new) for a non-empty old: the non-overlapping occurrences
\* of old, found left to right, are replaced
RECURSIVE StrReplace(_, _, _)
StrReplace(s, old, new) ==
    IF Len(s) < Len(old) THEN s
    ELSE IF StartsWith(s, old)
         THEN new \o StrReplace(SubSeq(s, Len(old) + 1, Len(s)), old, new)
         ELSE <<Head(s)>> \o StrReplace(Tail(s), old, new)

\* str.split(sep) for a one-character sep: always at least one component
RECURSIVE StrSplit(_, _)
StrSplit(s, sep) ==
    IF \A k \in DOMAIN s : s[k] # sep THEN <<s>>
    ELSE LET p == CHOOSE k \in DOMAIN s :
                      s[k] = sep /\ \A j \in 1..(k - 1) : s[j] # sep
         IN  <<SubSeq(s, 1, p - 1)>> \o StrSplit(SubSeq(s, p + 1, Len(s)), sep)

\* sep.join(parts)
RECURSIVE StrJoin(_, _)
StrJoin(parts, sep) ==
    IF Len(parts) = 0 THEN <<>>
    ELSE IF Len(parts) = 1 THEN parts[1]
    ELSE parts[1] \o <<sep>> \o StrJoin(Tail(parts), sep)

\* str.strip('-')
RECURSIVE StripHyphens(_)
StripHyphens(s) ==
    IF Len(s) = 0 THEN s
    ELSE IF Head(s) = "-" THEN StripHyphens(Tail(s))
    ELSE IF s[Len(s)] = "-" THEN StripHyphens(SubSeq(s, 1, Len(s) - 1))
    ELSE s

\* re.sub(r'-+', '-', s): every maximal run of hyphens becomes one hyphen
RECURSIVE CollapseHyphens(_)
CollapseHyphens(s) ==
    IF Len(s) < 2 THEN s
    ELSE IF s[1] = "-" /\ s[2] = "-" THEN CollapseHyphens(Tail(s))
    ELSE <<Head(s)>> \o CollapseHyphens(Tail(s))

\* re.sub(r'^\d+', '', s): a pattern that forgets the hyphen
RECURSIVE StripLeadingDigitsOnly(_)
StripLeadingDigitsOnly(s) ==
    IF Len(s) > 0 /\ Head(s) \in Digits
    THEN StripLeadingDigitsOnly(Tail(s))
    ELSE s

\* re.sub(r'^[\d-]+', '', s): the leading run of digits and hyphens is removed
RECURSIVE StripLeadingDigitsHyphens(_)
StripLeadingDigitsHyphens(s) ==
    IF Len(s) > 0 /\ (Head(s) \in Digits \/ Head(s) = "-")
    THEN StripLeadingDigitsHyphens(Tail(s))
    ELSE s

-----------------------------------------------------------------------------
(* sanitize_for_myst_url, lines 77-95, step by step.                       *)

\* slug.replace(' ', '-') alone: the underscores are forgotten
ReplaceSpacesOnly(s) == StrReplace(s, <<" ">>, <<"-">>)

\* line 81: slug.replace(' ', '-').replace('_', '-')
ReplaceSpacesUnderscores(s) == StrReplace(StrReplace(s, <<" ">>, <<"-">>), <<"_">>, <<"-">>)

\* re.sub(r'^[\d-]+', '', slug) on the whole slug, not on each component
StripOrdinalsOfWholePath(s) == StripLeadingDigitsHyphens(s)

\* line 87: "/".join([re.sub(r'^[\d-]+', '', s) for s in slug.split('/')])
StripOrdinals(s) ==
    LET parts == StrSplit(s, "/")
    IN  StrJoin([k \in DOMAIN parts |-> StripLeadingDigitsHyphens(parts[k])], "/")

\* lines 91-93: '/'.join(part.strip('-') for part in slug.split('/'))
StripComponents(s) ==
    LET parts == StrSplit(s, "/")
    IN  StrJoin([k \in DOMAIN parts |-> StripHyphens(parts[k])], "/")

sanitize_for_myst_url(path) ==
    StripComponents(StripOrdinals(CollapseHyphens(ReplaceSpacesUnderscores(StrLower(path)))))

-----------------------------------------------------------------------------
(* Inputs of the sanitizer check: every string over SanChars of at most    *)
(* MaxLen characters, and the examples of the docstring (lines 61-75).     *)

SanChars == {"A", "b", "_", " ", "-", "1", "/"}

RECURSIVE StringsUpTo(_, _)
StringsUpTo(chars, n) ==
    IF n = 0 THEN {<<>>}
    ELSE LET shorter == StringsUpTo(chars, n - 1)
         IN  shorter \cup {<<c>> \o s : c \in chars, s \in {t \in shorter : Len(t) = n - 1}}

ExTestWithSpaces == <<"T", "e", "s", "t", " ", "W", "i", "t", "h", " ", "S", "p", "a", "c", "e", "s">>
ExTestMixedCase == <<"T", "e", "s", "t", "M", "i", "x", "e", "d", "C", "a", "s", "e">>
ExUnderscores == <<"t", "e", "s", "t", "_", "w", "i", "t", "h", "_", "u", "n", "d", "e", "r", "s", "c", "o", "r", "e", "s">>
ExLeadingUnderscore == <<"_", "L", "e", "a", "d", "i", "n", "g", "U", "n", "d", "e", "r", "s", "c", "o", "r", "e">>
ExMultipleSpecial == <<"M", "u", "l", "t", "i", "p", "l", "e", "_", "_", "_", "S", "p", "e", "c", "i", "a", "l">>
ExCharters == <<"c", "h", "a", "r", "t", "e", "r", "s", "/", "M", "e", "d", "i", "a", "S", "t", "r", "a", "t", "e", "g", "y", "C", "h", "a", "r", "t", "e", "r">>
ExDemand == <<"c", "o", "n", "t", "e", "n", "t", "/", "0", "1", "-", "d", "e", "m", "a", "n", "d", "/", "0", "1", "-", "d", "e", "m", "a", "n", "d">>

DocExamples == {ExTestWithSpaces, ExTestMixedCase, ExUnderscores, ExLeadingUnderscore,
                ExMultipleSpecial, ExCharters, ExDemand}

SanInputs == StringsUpTo(SanChars, MaxLen) \cup DocExamples

-----------------------------------------------------------------------------
(* Values of the variables a specification does not use.                   *)

PipelineIdle ==
    /\ base_url_arg = <<>>
    /\ base_url = <<>>
    /\ config_exists = FALSE
    /\ config = [top |-> "None", project |-> "absent", has_toc |-> FALSE, toc |-> <<>>]
    /\ file_paths = <<>>
    /\ index_slug = <<>>
    /\ idx = 0
    /\ count = 0
    /\ written = <<>>
    /\ files = {}
    /\ files_prev = {}
    /\ run_no = 0
    /\ exc = "none"
    /\ exit_code = -1

-----------------------------------------------------------------------------
(* The sanitizer applied to an input, and to its own result.               *)

InitSanitize ==
    /\ pc = "san_call"
    /\ arg \in SanInputs
    /\ out = <<>>
    /\ out2 = <<>>
    /\ PipelineIdle

Sanitize ==
    /\ pc = "san_call"
    /\ out' = sanitize_for_myst_url(arg)
    /\ pc' = "san_once"
    /\ UNCHANGED <<arg, out2>>
    /\ UNCHANGED pipeline_vars

SanitizeAgain ==
    /\ pc = "san_once"
    /\ out2' = sanitize_for_myst_url(out)
    /\ pc' = "san_twice"
    /\ UNCHANGED <<arg, out>>
    /\ UNCHANGED pipeline_vars

NextSanitize == Sanitize \/ SanitizeAgain

SpecSanitize == InitSanitize /\ [][NextSanitize]_vars

-----------------------------------------------------------------------------
(* Properties of sanitize_for_myst_url (checked under SpecSanitize).       *)

Sanitized == pc \in {"san_once", "san_twice"}

HasUpper(s) == \E k \in DOMAIN s : IsUpper(s[k])

HasDoubleHyphen(s) == \E k \in 1..(Len(s) - 1) : s[k] = "-" /\ s[k + 1] = "-"

\* C4: sanitize_for_myst_url is idempotent: sanitizing the result of the
\* sanitizer returns that result unchanged.
C4_Idempotent == pc = "san_twice" => out2 = out

\* an input the sanitizer changed (an ordinal prefix went away), sanitized twice
C4_Witness ==
    /\ pc = "san_twice"
    /\ Len(arg) > 0 /\ Head(arg) \in Digits
    /\ Len(out) > 0 /\ out # arg
    /\ out2 = out

\* C5: the output of sanitize_for_myst_url has no upper-case letter, no
\* underscore, no space and no run of two or more hyphens.
C5_CleanOutput ==
    Sanitized =>
        /\ ~HasUpper(out)
        /\ \A k \in DOMAIN out : out[k] # "_" /\ out[k] # " "
        /\ ~HasDoubleHyphen(out)

\* an input with an upper-case letter and a run of separators that turns into
\* a run of hyphens, sanitized to a non-empty slug
C5_Witness ==
    /\ pc = "san_once"
    /\ HasUpper(arg)
    /\ \E k \in 1..(Len(arg) - 1) :
           arg[k] \in {"_", " ", "-"} /\ arg[k + 1] \in {"_", " "}
    /\ \E k \in DOMAIN out : out[k] = "-"

ExpectedOf(s) ==
    CASE s = ExTestWithSpaces ->
           <<"t", "e", "s", "t", "-", "w", "i", "t", "h", "-", "s", "p", "a", "c", "e", "s">>
      [] s = ExTestMixedCase ->
           <<"t", "e", "s", "t", "m", "i", "x", "e", "d", "c", "a", "s", "e">>
      [] s = ExUnderscores ->
           <<"t", "e", "s", "t", "-", "w", "i", "t", "h", "-", "u", "n", "d", "e", "r", "s", "c", "o", "r", "e", "s">>
      [] s = ExLeadingUnderscore ->
           <<"l", "e", "a", "d", "i", "n", "g", "u", "n", "d", "e", "r", "s", "c", "o", "r", "e">>
      [] s = ExMultipleSpecial ->
           <<"m", "u", "l", "t", "i", "p", "l", "e", "-", "s", "p", "e", "c", "i", "a", "l">>
      [] s = ExCharters ->
           <<"c", "h", "a", "r", "t", "e", "r", "s", "/", "m", "e", "d", "i", "a", "s", "t", "r", "a", "t", "e", "g", "y", "c", "h", "a", "r", "t", "e", "r">>
      [] s = ExDemand ->
           <<"c", "o", "n", "t", "e", "n", "t", "/", "d", "e", "m", "a", "n", "d", "/", "d", "e", "m", "a", "n", "d">>

\* the '/'-separated components of s, read off the string itself
ComponentBounds(s) ==
    {<<a, b>> \in (1..(Len(s) + 1)) \X (0..Len(s)) :
        /\ a <= b
        /\ (a = 1 \/ s[a - 1] = "/")
        /\ (b = Len(s) \/ s[b + 1] = "/")
        /\ \A k \in a..b : s[k] # "/"}

\* C6: the sanitizer maps each example of its docstring to the documented
\* slug, and no component of any output begins with a digit or a hyphen or
\* ends with a hyphen.
C6_ExamplesAndComponents ==
    Sanitized =>
        /\ arg \in DocExamples => out = ExpectedOf(arg)
        /\ \A ab \in ComponentBounds(out) :
               /\ out[ab[1]] \notin Digits \cup {"-"}
               /\ out[ab[2]] # "-"

\* the example with ordinal prefixes in two components of three
C6_Witness ==
    /\ pc = "san_once"
    /\ arg = ExDemand
    /\ Len(StrSplit(out, "/")) = 3
    /\ out = ExpectedOf(ExDemand)

-----------------------------------------------------------------------------
(* flatten_toc, lines 28-43.  An entry node is a record: has_file and file *)
(* for the optional 'file' key, has_children and children for the optional *)
(* 'children' key (file is <<>> and children is <<>> when the key is       *)
(* absent).                                                                *)

\* the loop body with lines 39-40 and 41-42 exchanged: children first
RECURSIVE flatten_toc_children_first(_)
flatten_toc_children_first(toc) ==
    IF Len(toc) = 0 THEN <<>>
    ELSE LET item == Head(toc)
             below == IF item.has_children
                      THEN flatten_toc_children_first(item.children) ELSE <<>>
             own == IF item.has_file THEN <<item.file>> ELSE <<>>
         IN  below \o own \o flatten_toc_children_first(Tail(toc))

\* files = []; for item in toc: append item['file'] if present, then extend
\* with flatten_toc(item['children']) if present
RECURSIVE flatten_toc(_)
flatten_toc(toc) ==
    IF Len(toc) = 0 THEN <<>>
    ELSE LET item == Head(toc)
             own == IF item.has_file THEN <<item.file>> ELSE <<>>
             below == IF item.has_children THEN flatten_toc(item.children) ELSE <<>>
         IN  own \o below \o flatten_toc(Tail(toc))

-----------------------------------------------------------------------------
(* Inputs of the flatten_toc check: every table of contents of at most     *)
(* MaxNodes entry nodes, each with one of two file names or none, a leaf   *)
(* with no 'children' key or with an empty one.                            *)

TocFileChoices ==
    {[has_file |-> FALSE, file |-> <<>>],
     [has_file |-> TRUE, file |-> <<"a">>],
     [has_file |-> TRUE, file |-> <<"b">>]}

RECURSIVE TocsOfSize(_)
\* the entry nodes that have m - 1 descendants
NodesOfSize(m) ==
    LET kids == IF m = 1
                THEN {[has_children |-> FALSE, children |-> <<>>],
                      [has_children |-> TRUE, children |-> <<>>]}
                ELSE {[has_children |-> TRUE, children |-> c] : c \in TocsOfSize(m - 1)}
    IN  {[has_file |-> f.has_file, file |-> f.file,
          has_children |-> k.has_children, children |-> k.children] :
            f \in TocFileChoices, k \in kids}

\* the entry sequences that hold n nodes in all
TocsOfSize(n) ==
    IF n = 0 THEN {<<>>}
    ELSE UNION {{<<node>> \o rest : node \in NodesOfSize(m), rest \in TocsOfSize(n - m)} :
                    m \in 1..n}

TocInputs == UNION {TocsOfSize(n) : n \in 0..MaxNodes}

InitFlatten ==
    /\ pc = "flat_call"
    /\ arg \in TocInputs
    /\ out = <<>>
    /\ out2 = <<>>
    /\ PipelineIdle

Flatten ==
    /\ pc = "flat_call"
    /\ out' = flatten_toc(arg)
    /\ pc' = "flat_done"
    /\ UNCHANGED <<arg, out2>>
    /\ UNCHANGED pipeline_vars

NextFlatten == Flatten

SpecFlatten == InitFlatten /\ [][NextFlatten]_vars

-----------------------------------------------------------------------------
(* Pre-order, stated on node positions.  A position is the sequence of     *)
(* indices that leads from the top-level sequence to a node.               *)

RECURSIVE Positions(_)
Positions(toc) ==
    UNION {{<<k>>} \cup {<<k>> \o p : p \in Positions(toc[k].children)} : k \in DOMAIN toc}

RECURSIVE NodeAt(_, _)
NodeAt(toc, p) ==
    IF Len(p) = 1 THEN toc[p[1]] ELSE NodeAt(toc[p[1]].children, Tail(p))

IsAncestor(p, q) == Len(p) < Len(q) /\ SubSeq(q, 1, Len(p)) = p

\* p's node is visited before q's: p is an ancestor of q, or at the first
\* index where they differ p takes the earlier sibling
Before(p, q) ==
    \/ IsAncestor(p, q)
    \/ \E k \in 1..Len(p) :
           /\ k <= Len(q)
           /\ SubSeq(p, 1, k - 1) = SubSeq(q, 1, k - 1)
           /\ p[k] < q[k]

FilePositions(toc) == {p \in Positions(toc) : NodeAt(toc, p).has_file}

Rank(toc, p) == Cardinality({q \in FilePositions(toc) : Before(q, p)}) + 1

\* C9: flatten_toc returns the 'file' values of all nodes in depth-first
\* pre-order: one element per node that has a file, a node's file before
\* those of its descendants, these before those of its later siblings, and
\* nodes without a file contribute nothing while their children are visited.
C9_PreOrder ==
    pc = "flat_done" =>
        /\ Len(out) = Cardinality(FilePositions(arg))
        /\ \A p \in FilePositions(arg) : out[Rank(arg, p)] = NodeAt(arg, p).file

\* a node without a file over a node with a file, itself over a node with
\* the other file
C9_Witness ==
    /\ pc = "flat_done"
    /\ \E p, q \in FilePositions(arg) :
           IsAncestor(p, q) /\ NodeAt(arg, p).file # NodeAt(arg, q).file
    /\ \E p \in Positions(arg) :
           /\ ~NodeAt(arg, p).has_file
           /\ \E q \in FilePositions(arg) : IsAncestor(p, q)
    /\ Len(out) = 2

-----------------------------------------------------------------------------
(* load_myst_toc, lines 130-152.  The value yaml.safe_load returns is a    *)
(* record: top is the Python type of the document, project the type of     *)
(* config['project'] ("absent" without that key), has_toc whether          *)
(* config['project'] has the key 'toc', toc its value.  "str_with_key" is  *)
(* a string that contains the key looked up in it as a substring.          *)

\* Python's `key in v` by the type of v: "yes", "no" or "TypeError"
KeyIn(kind, dict_has_key) ==
    CASE kind \in {"None", "int"} -> "TypeError"
      [] kind = "str" -> "no"
      [] kind = "str_with_key" -> "yes"
      [] kind = "list" -> "no"
      [] kind = "dict" -> IF dict_has_key THEN "yes" ELSE "no"

\* Python's v[key] for a string key, given that `key in v` was true: a str
\* takes integer indices only
Subscriptable(kind) == kind = "dict"

Raised(e) == [raised |-> e, value |-> <<>>]

load_myst_toc(exists, cfg) ==
    IF ~exists THEN Raised("FileNotFoundError")                      \* 143-144
    ELSE LET has_project == KeyIn(cfg.top, cfg.project # "absent")   \* 149, left
         IN
         IF has_project = "TypeError" THEN Raised("TypeError")
         ELSE IF has_project = "no" THEN Raised("KeyError")          \* 150
         ELSE IF ~Subscriptable(cfg.top) THEN Raised("TypeError")    \* 149, right
         ELSE LET has_toc == KeyIn(cfg.project, cfg.has_toc)
              IN
              IF has_toc = "TypeError" THEN Raised("TypeError")
              ELSE IF has_toc = "no" THEN Raised("KeyError")         \* 150
              ELSE IF ~Subscriptable(cfg.project) THEN Raised("TypeError")  \* 152
              ELSE [raised |-> "none", value |-> flatten_toc(cfg.toc)]

-----------------------------------------------------------------------------
(* generate_redirects, lines 179-219, and create_redirect_html, 98-127.    *)

DotMd == <<".", "m", "d">>
DotIpynb == <<".", "i", "p", "y", "n", "b">>
DotHtml == <<".", "h", "t", "m", "l">>

\* lines 186-187
NormalizeBaseUrl(url) == IF EndsWith(url, <<"/">>) THEN url ELSE url \o <<"/">>

\* line 206: file_path.replace('.md', '.html').replace('.ipynb', '.html')
OldSlug(file_path) == StrReplace(StrReplace(file_path, DotMd, DotHtml), DotIpynb, DotHtml)

\* lines 199 and 209: file_path.replace('.md', '').replace('.ipynb', '')
PathWithoutExt(file_path) == StrReplace(StrReplace(file_path, DotMd, <<>>), DotIpynb, <<>>)

\* lines 209-210
NewSlug(file_path) == sanitize_for_myst_url(PathWithoutExt(file_path))

\* line 213 without the index case
NewUrlNeverIndex(base, new_slug, index) == base \o new_slug \o <<"/">>

\* line 213
NewUrl(base, new_slug, index) ==
    IF new_slug = index THEN base ELSE base \o new_slug \o <<"/">>

\* line 110: output_root / old_slug.  pathlib drops the empty and the '.'
\* components of the joined path; the output file is named by what is left
\* of old_slug below output_root
OutputFile(old_slug) ==
    LET parts == StrSplit(old_slug, "/")
        keep == {k \in DOMAIN parts : parts[k] # <<>> /\ parts[k] # <<".">>}
        RECURSIVE Kept(_)
        Kept(k) == IF k > Len(parts) THEN <<>>
                   ELSE IF k \in keep THEN <<parts[k]>> \o Kept(k + 1)
                   ELSE Kept(k + 1)
    IN  StrJoin(Kept(1), "/")

\* lines 114-125: the template, with new_url in its three places
RedirectHtml(new_url) == [refresh |-> new_url, href |-> new_url, text |-> new_url]

\* lines 110-126: write_text creates the file or replaces its content
create_redirect_html(tree, old_slug, new_url) ==
    {f \in tree : f.path # OutputFile(old_slug)}
        \cup {[path |-> OutputFile(old_slug), content |-> RedirectHtml(new_url)]}

-----------------------------------------------------------------------------
(* Inputs of a generator run.                                              *)

Paths ==
    {<<"i", "n", ".", "m", "d">>,
     <<"0", "1", "-", "i", "n", ".", "m", "d">>,
     <<"i", "n", ".", "i", "p", "y", "n", "b">>,
     <<"a", "/", "M", "y", ".", "m", "d", "_", "D", ".", "m", "d">>,
     <<"i", "n">>,
     <<"i", "n", ".", "h", "t", "m", "l">>}

BaseUrls == {<<"u", ".", "i", "o">>, <<"u", ".", "i", "o", "/">>}

\* top-level entries without children: with one of Paths as file, or without
Entries ==
    {[has_file |-> TRUE, file |-> p, has_children |-> FALSE, children |-> <<>>] : p \in Paths}
        \cup {[has_file |-> FALSE, file |-> <<>>, has_children |-> FALSE, children |-> <<>>]}

RECURSIVE EntrySeqs(_)
EntrySeqs(n) ==
    IF n = 0 THEN {<<>>}
    ELSE LET shorter == EntrySeqs(n - 1)
         IN  shorter \cup {<<e>> \o s : e \in Entries, s \in {t \in shorter : Len(t) = n - 1}}

Doc(top, project, has_toc, toc) ==
    [top |-> top, project |-> project, has_toc |-> has_toc, toc |-> toc]

\* one top-level entry, with or without a file, over one child entry
NestedTocs ==
    {<<[has_file |-> parent.has_file, file |-> parent.file,
        has_children |-> TRUE, children |-> <<child>>]>> :
        parent \in Entries, child \in {c \in Entries : c.has_file}}

\* documents with a project.toc list
GoodDocs == {Doc("dict", "dict", TRUE, toc) : toc \in EntrySeqs(MaxEntries) \cup NestedTocs}

\* documents without: not a mapping, no 'project', a 'project' that is not a
\* mapping, a 'project' mapping without 'toc'
BadDocs ==
    {Doc(top, "absent", FALSE, <<>>) : top \in {"None", "int", "str", "str_with_key", "list", "dict"}}
        \cup {Doc("dict", project, FALSE, <<>>) :
                  project \in {"None", "int", "str", "str_with_key", "list", "dict"}}

Init ==
    /\ pc = "gen_start"
    /\ base_url_arg \in BaseUrls
    /\ base_url = base_url_arg
    /\ config_exists \in BOOLEAN
    /\ config \in IF config_exists THEN GoodDocs \cup BadDocs
                  ELSE {Doc("None", "absent", FALSE, <<>>)}
    /\ file_paths = <<>>
    /\ index_slug = <<>>
    /\ idx = 0
    /\ count = 0
    /\ written = <<>>
    /\ files = {}
    /\ files_prev = {}
    /\ run_no = 1
    /\ exc = "none"
    /\ exit_code = -1
    /\ arg = <<>>
    /\ out = <<>>
    /\ out2 = <<>>

\* lines 185-200: normalise the base URL, load the toc, return 0 on an empty
\* list, else compute index_slug and enter the loop
generate_redirects_begin ==
    /\ pc = "gen_start"
    /\ base_url' = NormalizeBaseUrl(base_url)
    /\ LET loaded == load_myst_toc(config_exists, config)
       IN  IF loaded.raised # "none"
           THEN /\ exc' = loaded.raised
                /\ pc' = "gen_raised"
                /\ UNCHANGED <<file_paths, index_slug, idx, count>>
           ELSE IF Len(loaded.value) = 0
           THEN /\ file_paths' = loaded.value
                /\ count' = 0
                /\ pc' = "gen_returned"
                /\ UNCHANGED <<exc, index_slug, idx>>
           ELSE /\ file_paths' = loaded.value
                /\ index_slug' = NewSlug(loaded.value[1])
                /\ count' = 0
                /\ idx' = 1
                /\ pc' = "gen_loop"
                /\ UNCHANGED exc
    /\ UNCHANGED <<base_url_arg, config_exists, config, written, files, files_prev,
                   run_no, exit_code>>
    /\ UNCHANGED function_vars

\* the loop body counting a file only when it did not exist yet
generate_redirects_iteration_counting_new_files ==
    /\ pc = "gen_loop"
    /\ idx <= Len(file_paths)
    /\ LET file_path == file_paths[idx]
           old_slug == OldSlug(file_path)
           new_url == NewUrl(base_url, NewSlug(file_path), index_slug)
       IN  /\ files' = create_redirect_html(files, old_slug, new_url)
           /\ written' = Append(written, [old_slug |-> old_slug, new_url |-> new_url])
           /\ count' = IF \E f \in files : f.path = OutputFile(old_slug)
                       THEN count ELSE count + 1
    /\ idx' = idx + 1
    /\ UNCHANGED <<pc, base_url_arg, base_url, config_exists, config, file_paths,
                   index_slug, files_prev, run_no, exc, exit_code>>
    /\ UNCHANGED function_vars

\* lines 204-217: one iteration of the loop
generate_redirects_iteration ==
    /\ pc = "gen_loop"
    /\ idx <= Len(file_paths)
    /\ LET file_path == file_paths[idx]
           old_slug == OldSlug(file_path)
           new_url == NewUrl(base_url, NewSlug(file_path), index_slug)
       IN  /\ files' = create_redirect_html(files, old_slug, new_url)
           /\ written' = Append(written, [old_slug |-> old_slug, new_url |-> new_url])
    /\ count' = count + 1
    /\ idx' = idx + 1
    /\ UNCHANGED <<pc, base_url_arg, base_url, config_exists, config, file_paths,
                   index_slug, files_prev, run_no, exc, exit_code>>
    /\ UNCHANGED function_vars

\* lines 111 and 126: mkdir or write_text raises (a permission denied, a full
\* disk); the exception leaves generate_redirects
create_redirect_html_fails ==
    /\ pc = "gen_loop"
    /\ idx <= Len(file_paths)
    /\ exc' = "OSError"
    /\ pc' = "gen_raised"
    /\ UNCHANGED <<base_url_arg, base_url, config_exists, config, file_paths,
                   index_slug, idx, count, written, files, files_prev, run_no,
                   exit_code>>
    /\ UNCHANGED function_vars

\* line 219: the list is exhausted, return count
generate_redirects_return ==
    /\ pc = "gen_loop"
    /\ idx > Len(file_paths)
    /\ pc' = "gen_returned"
    /\ UNCHANGED pipeline_vars
    /\ UNCHANGED function_vars

\* main, lines 251-269: print the count and end with exit code 0, or print
\* the error and sys.exit(1)
main_exit ==
    /\ pc \in {"gen_returned", "gen_raised"}
    /\ exit_code' = IF pc = "gen_returned" THEN 0 ELSE 1
    /\ pc' = "exited"
    /\ UNCHANGED <<base_url_arg, base_url, config_exists, config, file_paths,
                   index_slug, idx, count, written, files, files_prev, run_no, exc>>
    /\ UNCHANGED function_vars

\* the program is run once more with the same options, config and output
\* directory after a run that succeeded
main_again ==
    /\ pc = "exited"
    /\ exit_code = 0
    /\ run_no = 1
    /\ run_no' = 2
    /\ files_prev' = files
    /\ pc' = "gen_start"
    /\ base_url' = base_url_arg
    /\ file_paths' = <<>>
    /\ index_slug' = <<>>
    /\ idx' = 0
    /\ count' = 0
    /\ written' = <<>>
    /\ exc' = "none"
    /\ exit_code' = -1
    /\ UNCHANGED <<base_url_arg, config_exists, config, files>>
    /\ UNCHANGED function_vars

Next ==
    \/ generate_redirects_begin
    \/ generate_redirects_iteration
    \/ create_redirect_html_fails
    \/ generate_redirects_return
    \/ main_exit
    \/ main_again

Spec == Init /\ [][Next]_vars

-----------------------------------------------------------------------------
(* Properties of a generator run (checked under Spec).                     *)

\* the base URL with a guaranteed trailing '/'
ExpectedBase ==
    IF Len(base_url_arg) > 0 /\ base_url_arg[Len(base_url_arg)] = "/"
    THEN base_url_arg
    ELSE base_url_arg \o <<"/">>

\* the files of the document's toc in pre-order, by the rank of their nodes
ExpectedFiles ==
    [k \in 1..Cardinality(FilePositions(config.toc)) |->
        NodeAt(config.toc, CHOOSE p \in FilePositions(config.toc) :
                               Rank(config.toc, p) = k).file]

\* the parsed document lacks the project.toc shape
LacksProjectToc(cfg) == ~(cfg.top = "dict" /\ cfg.project = "dict" /\ cfg.has_toc)

Returned == pc \in {"gen_returned", "exited"} /\ exc = "none"

\* C1: every entry is redirected to exactly the normalised base URL when its
\* sanitized extensionless slug equals index_slug (the slug of the first
\* file path), and to base URL + slug + '/' otherwise; the first entry is
\* always redirected to the bare normalised base URL.
C1_NewUrl ==
    /\ Len(written) > 0 =>
           LET expected == ExpectedFiles
               index == sanitize_for_myst_url(PathWithoutExt(expected[1]))
           IN  \A k \in DOMAIN written :
                   LET slug == sanitize_for_myst_url(PathWithoutExt(expected[k]))
                   IN  written[k].new_url =
                           IF slug = index THEN ExpectedBase
                           ELSE ExpectedBase \o slug \o <<"/">>
    /\ Len(written) > 0 => written[1].new_url = ExpectedBase
    /\ \A f \in files : f.content.refresh[Len(f.content.refresh)] = "/"

\* a finished run from a base URL without trailing '/', whose first entry went
\* to the bare base URL and another entry to a sub-path
C1_Witness ==
    /\ Returned
    /\ base_url_arg # ExpectedBase
    /\ Len(written) >= 2
    /\ written[1].new_url = base_url_arg \o <<"/">>
    /\ \E k \in DOMAIN written : Len(written[k].new_url) > Len(ExpectedBase)

\* C2: only the index entry is redirected to exactly the base URL: every
\* entry whose file path differs from file_paths[0] is redirected to base
\* URL + slug + '/', never to the bare base URL.
C2_OnlyIndexAtBase ==
    \A k \in DOMAIN written :
        file_paths[k] # file_paths[1] =>
            /\ written[k].new_url # ExpectedBase
            /\ written[k].new_url = ExpectedBase \o NewSlug(file_paths[k]) \o <<"/">>

\* C3: a run that does not fail writes exactly one redirect file per entry of
\* the flattened list, in list order, and returns the list's length
\* (duplicates counted); on an empty list it returns 0, writes nothing and
\* raises nothing.
C3_OneWritePerEntry ==
    /\ Len(written) > 0 =>
           LET expected == ExpectedFiles
           IN  \A k \in DOMAIN written :
                   /\ k <= Len(expected)
                   /\ written[k].old_slug = OldSlug(expected[k])
    /\ pc = "gen_loop" => count = Len(written)
    /\ Returned =>
           /\ count = Cardinality(FilePositions(config.toc))
           /\ Len(written) = Cardinality(FilePositions(config.toc))
           /\ \A k \in DOMAIN written :
                  \E f \in files : f.path = OutputFile(written[k].old_slug)
    /\ (pc # "gen_start" /\ config_exists /\ ~LacksProjectToc(config)
            /\ FilePositions(config.toc) = {}) =>
           /\ pc \in {"gen_returned", "exited"}
           /\ exc = "none" /\ exit_code # 1
           /\ count = 0 /\ written = <<>>
           /\ files = files_prev

\* a successful run over three entries, two of them written to the same file
C3_Witness ==
    /\ pc = "exited" /\ exit_code = 0
    /\ count = 3
    /\ Len(written) = 3
    /\ \E j, k \in DOMAIN written : j < k /\ written[j].old_slug = written[k].old_slug
    /\ Cardinality(files) = 2

\* C7: the old URL path of every file path, whatever its extension or with
\* none, ends in '.html'.
C7_OldUrlEndsInHtml ==
    \A k \in DOMAIN written : EndsWith(written[k].old_slug, DotHtml)

\* C8: load_myst_toc fails with FileNotFoundError when the document does not
\* exist and with KeyError for every parsed document that lacks the
\* project.toc shape; in both cases no list is returned.
C8_LoadErrors ==
    pc # "gen_start" =>
        /\ ~config_exists =>
               exc = "FileNotFoundError" /\ file_paths = <<>> /\ written = <<>>
        /\ (config_exists /\ LacksProjectToc(config)) =>
               exc = "KeyError" /\ file_paths = <<>> /\ written = <<>>

\* C10: two entries of one run written to the same output file are written
\* with the same destination URL, and a re-run with the same inputs leaves
\* the output tree as it was.
C10_OverwriteHarmless ==
    /\ \A j, k \in DOMAIN written :
           OutputFile(written[j].old_slug) = OutputFile(written[k].old_slug) =>
               written[j].new_url = written[k].new_url
    /\ (run_no = 2 /\ pc = "exited" /\ exit_code = 0) => files = files_prev

====
